---- MODULE Spec2Model ----
(***************************************************************************)
(* State-machine model of momentum_screener.py (German compound momentum   *)
(* screener): the metric engine (momentum_return, rsl_score), the          *)
(* per-ticker download loop, the RSL filter, percentile ranking, composite *)
(* score, stable sort, top-N cut, and the three persisted JSON documents   *)
(* (prev_ranks.json, screener_data.json, history.json).                    *)
(*                                                                         *)
(* Numbers.  Prices are integers in units of 1/10000 EUR.  A float result  *)
(* of the metric engine is kept as an exact fraction <<num, den>> with     *)
(* den > 0, or NaN; round(x, k) of the source becomes Round(x, k), an      *)
(* integer counting units of 10^-k (so rsl 1.0 is 10000 and a momentum of  *)
(* 12.34 % is 1234).  The weights W_* are in hundredths.                   *)
(***************************************************************************)
EXTENDS Integers, Sequences, FiniteSets, TLC

\* ---- Config (momentum_screener.py lines 35-50) --------------------------
TOP_N == 20
RSL_PERIOD == 130
MOM_12M == 252
MOM_6M == 126
MOM_3M == 63
MOM_SKIP == 21
W_12M == 40
W_6M == 35
W_3M == 25
\* len(hist) < 60 is "Insufficient data" (line 284)
MIN_SESSIONS == 60
\* history = history[-104:] (line 422)
HISTORY_KEEP == 104
\* round(rsl, 4), round(m12, 2), round(price, 2) (lines 310-314), round(composite, 2) (line 353)
RSL_DECIMALS == 4
MOM_DECIMALS == 2
PRICE_DECIMALS == 2
COMPOSITE_DECIMALS == 2

\* ---- Bounds of the model ------------------------------------------------
\* tickers of the universe beyond TOP_N
Spare == 1
\* invocations of run_screener in one behaviour
MaxRuns == 2
\* how far beyond HISTORY_KEEP an already existing history.json may be
MaxOver == 1

\* ---- Arithmetic ---------------------------------------------------------
\* float('nan'): the fraction with denominator 0
NaN == <<0, 0>>

RECURSIVE Pow10(_)
Pow10(k) == IF k = 0 THEN 1 ELSE 10 * Pow10(k - 1)

Max(a, b) == IF a >= b THEN a ELSE b

\* q + r/den (0 <= r < den) rounded to the nearest integer, halves to even
\* (Python's round)
HalfEven(q, r, den) ==
    IF 2 * r < den THEN q
    ELSE IF 2 * r > den THEN q + 1
    ELSE IF q % 2 = 0 THEN q ELSE q + 1

RECURSIVE Shift(_, _, _, _)
\* <<q, r>> with (q + r/den) * 10^k = q' + r'/den, by long division (the
\* products stay below 2^31)
Shift(q, r, den, k) ==
    IF k = 0 THEN <<q, r>>
    ELSE Shift(q * 10 + (r * 10) \div den, (r * 10) % den, den, k - 1)

\* round(x, k) for a fraction x = <<num, den>>, den > 0, in units of 10^-k
Round(x, k) ==
    LET q0 == x[1] \div x[2]
        qr == Shift(q0, x[1] - q0 * x[2], x[2], k)
    IN  HalfEven(qr[1], qr[2], x[2])

\* pd.isna(x)
IsNa(x) == x[2] = 0

\* prices.iloc[-k]
ILocNeg(prices, k) == prices[Len(prices) - k + 1]

RECURSIVE SumRange(_, _, _)
\* prices[lo] + ... + prices[hi], halving the range
SumRange(prices, lo, hi) ==
    IF lo > hi THEN 0
    ELSE IF lo = hi THEN prices[lo]
    ELSE LET mid == (lo + hi) \div 2
         IN  SumRange(prices, lo, mid) + SumRange(prices, mid + 1, hi)

\* prices.iloc[-k:].sum()
SumLast(prices, k) == SumRange(prices, Len(prices) - k + 1, Len(prices))

\* ---- Metric engine ------------------------------------------------------
\* momentum_return(prices, lookback, skip): % change as a fraction, or NaN
momentum_return(prices, lookback, skip) ==
    IF Len(prices) < lookback + skip THEN NaN
    ELSE LET p_start == ILocNeg(prices, lookback + skip)
             p_end == ILocNeg(prices, skip)
         IN  IF p_start <= 0 THEN NaN
             ELSE <<(p_end - p_start) * 100, p_start>>

\* rsl_score(prices, period): current / mean(last period closes), or NaN
rsl_score(prices, period) ==
    IF Len(prices) < period THEN NaN
    ELSE LET current == ILocNeg(prices, 1)
             total == SumLast(prices, period)
         IN  IF total <= 0 THEN NaN
             ELSE <<current * period, total>>

\* ---- Universe and price feeds -------------------------------------------
\* Tickers are named by their position in TICKERS (lines 57-218).  The last
\* two, TickerA and TickerB, get any feed of FeedsA, FeedsB, anew in every
\* run; the others get the same price history in every run.
NumTickers == TOP_N + Spare
Tickers == 1 .. NumTickers
TickerA == NumTickers - 1
TickerB == NumTickers
Varying == {TickerA, TickerB}

\* 100 EUR in price units
Eur100 == 100 * Pow10(4)

\* A close series of the given length: `base` everywhere except at the
\* sessions the metric engine reads (iloc[-273], [-147], [-84], [-21], [-1]).
MkSeries(len, p12, p6, p3, pEnd, last, base) ==
    [j \in 1 .. len |->
        LET k == len - j + 1
        IN  IF k = 1 THEN last
            ELSE IF k = MOM_SKIP THEN pEnd
            ELSE IF k = MOM_3M + MOM_SKIP THEN p3
            ELSE IF k = MOM_6M + MOM_SKIP THEN p6
            ELSE IF k = MOM_12M + MOM_SKIP THEN p12
            ELSE base]

FullLen == MOM_12M + MOM_SKIP + 2

\* What yf.Ticker(symbol).history(...) does: raise, or return `rows` rows
\* whose non-null closes are `closes`.
FeedError == [kind |-> "error", rows |-> 0, closes |-> <<>>]
FeedHist(rows, closes) == [kind |-> "hist", rows |-> rows, closes |-> closes]

\* filler k: up 10 % since the skip month, 12m and 6m momentum growing with k,
\* 3m momentum falling with k; price above its average
FillerFeed(k) ==
    FeedHist(FullLen,
             MkSeries(FullLen, Eur100 - k * 10000, Eur100 - k * 10000,
                      Eur100 + k * 10000, Eur100 + 100000, Eur100 + 100000, Eur100))

\* fewer than 60 rows
FeedShort == FeedHist(MIN_SESSIONS - 1,
                      MkSeries(MIN_SESSIONS - 1, Eur100, Eur100, Eur100, Eur100, Eur100, Eur100))
\* enough rows, one close short of the 12-month window: m12 is NaN
FeedYoung == FeedHist(MOM_12M + MOM_SKIP - 1,
                      MkSeries(MOM_12M + MOM_SKIP - 1, Eur100, Eur100, Eur100, Eur100, Eur100, Eur100))
\* strongest momentum of the universe, price above its average
FeedTop == FeedHist(FullLen,
                    MkSeries(FullLen, Eur100 \div 2, Eur100 \div 2, Eur100 \div 2,
                             Eur100 + 100000, Eur100 + 100000, Eur100))
\* weakest momentum of the universe, price above its average
FeedBottom == FeedHist(FullLen,
                       MkSeries(FullLen, 2 * Eur100, 2 * Eur100, 2 * Eur100,
                                Eur100 + 100000, Eur100 + 200000, Eur100))
\* strongest momentum, price 10 % below its average
FeedBelow == FeedHist(FullLen,
                      MkSeries(FullLen, Eur100 \div 2, Eur100 \div 2, Eur100 \div 2,
                               Eur100 + 100000, Eur100 - 100000, Eur100))
\* strong momentum, price 0.004 % below its average (ratio 0.99996...)
FeedJustBelow == FeedHist(FullLen,
                          MkSeries(FullLen, Eur100 \div 2, Eur100 \div 2, Eur100,
                                   Eur100, Eur100 - 40, Eur100))

FeedsA == {FeedError, FeedYoung, FeedTop, FeedJustBelow}
FeedsB == {FeedShort, FeedTop, FeedBottom, FeedBelow}

Feeds(t) ==
    IF t = TickerA THEN FeedsA
    ELSE IF t = TickerB THEN FeedsB
    ELSE {FillerFeed(t)}

\* ---- Loop body of run_screener (lines 276-322) --------------------------
SkipRec(t, reason, days) == [ticker |-> t, reason |-> reason, days |-> days]

\* The outcome of the try block for ticker t under one feed: the record
\* appended to `skipped` (ok = FALSE) or to `results` (ok = TRUE).
\* `name` travels with `ticker` and is left out of the records.
FetchOutcome(t, feed) ==
    IF feed.kind = "error"
    THEN [ok |-> FALSE, rec |-> SkipRec(t, "Error", 0)]
    ELSE IF feed.rows = 0 \/ feed.rows < MIN_SESSIONS
    THEN [ok |-> FALSE, rec |-> SkipRec(t, "Insufficient data", feed.rows)]
    ELSE LET prices == feed.closes
             days == Len(prices)
             m12 == momentum_return(prices, MOM_12M, MOM_SKIP)
             m6 == momentum_return(prices, MOM_6M, MOM_SKIP)
             m3 == momentum_return(prices, MOM_3M, MOM_SKIP)
             rsl == rsl_score(prices, RSL_PERIOD)
         IN  IF \E x \in {m12, m6, m3, rsl} : IsNa(x)
             THEN [ok |-> FALSE, rec |-> SkipRec(t, "Insufficient history", days)]
             ELSE [ok |-> TRUE,
                   rec |-> [ticker |-> t,
                            price |-> Round(<<ILocNeg(prices, 1), Pow10(4)>>, PRICE_DECIMALS),
                            rsl |-> Round(rsl, RSL_DECIMALS),
                            mom_12m |-> Round(m12, MOM_DECIMALS),
                            mom_6m |-> Round(m6, MOM_DECIMALS),
                            mom_3m |-> Round(m3, MOM_DECIMALS)]]

\* The exact trend-strength ratio of a feed is below 1.0 (price below its
\* 130-day average); FALSE when rsl_score is undefined.
RatioBelowOne(feed) ==
    /\ feed.kind = "hist"
    /\ LET x == rsl_score(feed.closes, RSL_PERIOD)
       IN  ~IsNa(x) /\ x[1] < x[2]

\* the loop body and the exact ratio for every feed of every ticker
Outcomes == [t \in Tickers |-> [feed \in Feeds(t) |-> FetchOutcome(t, feed)]]
BelowOne == [t \in Tickers |-> [feed \in Feeds(t) |-> RatioBelowOne(feed)]]

\* ---- Ranking (lines 334-360) --------------------------------------------
\* rsl 1.0 in units of 10^-RSL_DECIMALS
RslOne == Pow10(RSL_DECIMALS)

\* results = [r for r in results if r["rsl"] >= 1.0]
RslFilter(results) == SelectSeq(results, LAMBDA r : r.rsl >= RslOne)

RECURSIVE InsertAsc(_, _)
InsertAsc(v, s) ==
    IF s = <<>> THEN <<v>>
    ELSE IF v <= Head(s) THEN <<v>> \o s
    ELSE <<Head(s)>> \o InsertAsc(v, Tail(s))

\* mutant of Sorted: the list is left in the order of the input
Sorted_Unsorted(s) == s

RECURSIVE Sorted(_)
\* sorted(list) of numbers, ascending
Sorted(s) == IF s = <<>> THEN <<>> ELSE InsertAsc(Head(s), Sorted(Tail(s)))

\* sorted_list.index(val): 0-based position of the first occurrence
Index(sorted_list, val) ==
    (CHOOSE j \in 1 .. Len(sorted_list) :
        /\ sorted_list[j] = val
        /\ \A k \in 1 .. (j - 1) : sorted_list[k] # val) - 1

\* mutant of pct_rank: divides by n instead of n - 1
pct_rank_DivN(val, sorted_list, n) ==
    <<Index(sorted_list, val) * 100, Max(n, 1)>>

\* pct_rank(val, sorted_list) with n = len(results): (pos / max(n-1, 1)) * 100
pct_rank(val, sorted_list, n) ==
    <<Index(sorted_list, val) * 100, Max(n - 1, 1)>>

Column(results, f) == [j \in 1 .. Len(results) |-> results[j][f]]

\* round(r12 * W_12M + r6 * W_6M + r3 * W_3M, 2); the three ranks share their
\* denominator and the weights are in hundredths.  The exact value and the
\* float of the source round alike for every n - 1 up to 23.
Composite(r12, r6, r3) ==
    Round(<<r12[1] * W_12M + r6[1] * W_6M + r3[1] * W_3M, r12[2] * 100>>,
          COMPOSITE_DECIMALS)

\* r12, r6, r3 of lines 350-352 for every r of the filtered results (with
\* r's ticker, to tell whose they are)
Percentiles(results) ==
    LET n == Len(results)
        m12_vals == Sorted(Column(results, "mom_12m"))
        m6_vals == Sorted(Column(results, "mom_6m"))
        m3_vals == Sorted(Column(results, "mom_3m"))
    IN  [j \in 1 .. n |->
            [ticker |-> results[j].ticker,
             r12 |-> pct_rank(results[j].mom_12m, m12_vals, n),
             r6 |-> pct_rank(results[j].mom_6m, m6_vals, n),
             r3 |-> pct_rank(results[j].mom_3m, m3_vals, n)]]

\* the loop of lines 349-353
WithComposite(results) ==
    LET p == Percentiles(results)
    IN  [j \in 1 .. Len(results) |->
            LET r == results[j]
            IN  [ticker |-> r.ticker, price |-> r.price, rsl |-> r.rsl,
                 mom_12m |-> r.mom_12m, mom_6m |-> r.mom_6m, mom_3m |-> r.mom_3m,
                 composite |-> Composite(p[j].r12, p[j].r6, p[j].r3)]]

RECURSIVE InsertDesc(_, _)
\* r goes behind every element whose composite is >= its own
InsertDesc(r, s) ==
    IF s = <<>> THEN <<r>>
    ELSE IF Head(s).composite >= r.composite THEN <<Head(s)>> \o InsertDesc(r, Tail(s))
    ELSE <<r>> \o s

RECURSIVE SortDesc(_)
\* results.sort(key=composite, reverse=True): stable, equal composites keep
\* their order
SortDesc(s) ==
    IF s = <<>> THEN <<>>
    ELSE InsertDesc(s[Len(s)], SortDesc(SubSeq(s, 1, Len(s) - 1)))

\* for i, r in enumerate(results): r["rank"] = i + 1
AssignRanks(s) ==
    [j \in 1 .. Len(s) |->
        [ticker |-> s[j].ticker, price |-> s[j].price, rsl |-> s[j].rsl,
         mom_12m |-> s[j].mom_12m, mom_6m |-> s[j].mom_6m, mom_3m |-> s[j].mom_3m,
         composite |-> s[j].composite, rank |-> j]]

\* steps 3-5 on the valid results: filter, score, sort, rank
Rank(results) == AssignRanks(SortDesc(WithComposite(RslFilter(results))))

\* results[:TOP_N]
Top(results) == SubSeq(results, 1, IF Len(results) < TOP_N THEN Len(results) ELSE TOP_N)

\* ---- Persisted documents -------------------------------------------------
\* A file is absent, holds what a run wrote (ok), or holds something
\* json.load / the code reading it raises on (corrupt).
Absent == [state |-> "absent", data |-> <<>>]
Corrupt == [state |-> "corrupt", data |-> <<>>]
Ok(data) == [state |-> "ok", data |-> data]

\* prev_ranks.get(ticker, None) returns None for a ticker that is no key
None == 0

\* new_prev = {r["ticker"]: r["rank"] for r in top20}
NewPrev(top) ==
    [t \in {top[j].ticker : j \in 1 .. Len(top)} |->
        top[CHOOSE j \in 1 .. Len(top) :
                /\ top[j].ticker = t
                /\ \A k \in (j + 1) .. Len(top) : top[k].ticker # t].rank]

\* prev_ranks = {} when the file is absent, else json.load(f)
LoadPrev(doc) == IF doc.state = "ok" THEN doc.data ELSE <<>>

\* for r in top20: r["prev_rank"] = prev_ranks.get(r["ticker"], None)
WithPrevRank(top, prev_ranks) ==
    [j \in 1 .. Len(top) |->
        [ticker |-> top[j].ticker, price |-> top[j].price, rsl |-> top[j].rsl,
         mom_12m |-> top[j].mom_12m, mom_6m |-> top[j].mom_6m,
         mom_3m |-> top[j].mom_3m, composite |-> top[j].composite,
         rank |-> top[j].rank,
         prev_rank |-> IF top[j].ticker \in DOMAIN prev_ranks
                       THEN prev_ranks[top[j].ticker] ELSE None]]

\* the `output` dict of lines 377-386 ("updated" and "universe" left out)
Output(date, results, skipped, top) ==
    [date |-> date, total_screened |-> Len(results), total_attempted |-> NumTickers,
     skipped_count |-> Len(skipped), top20 |-> top, skipped |-> skipped]

\* the `snapshot` dict of lines 402-418
Snapshot(date, top) ==
    [date |-> date,
     stocks |-> [j \in 1 .. Len(top) |->
                    [ticker |-> top[j].ticker, rank |-> top[j].rank,
                     composite |-> top[j].composite, rsl |-> top[j].rsl,
                     mom_12m |-> top[j].mom_12m, mom_6m |-> top[j].mom_6m,
                     mom_3m |-> top[j].mom_3m, price |-> top[j].price]]]

\* mutant of KeepLast: history[:104], which drops the newest entries
KeepLast_First(history, k) ==
    IF Len(history) <= k THEN history ELSE SubSeq(history, 1, k)

\* history[-104:]
KeepLast(history, k) ==
    IF Len(history) <= k THEN history
    ELSE SubSeq(history, Len(history) - k + 1, Len(history))

\* mutant of AppendTrim: the entries of this date are not dropped first
AppendTrim_NoDedup(history, snapshot) ==
    KeepLast(Append(history, snapshot), HISTORY_KEEP)

\* lines 399-422: drop the entries of this date, append, keep the last 104
AppendTrim(history, snapshot) ==
    KeepLast(Append(SelectSeq(history, LAMBDA h : h.date # snapshot.date), snapshot),
             HISTORY_KEEP)

\* ---- Earlier runs (what an installation already holds) -------------------
\* the top-N of a run in which every ticker had data, the varying ones on top
OldTop ==
    Top(Rank([t \in Tickers |->
                 FetchOutcome(t, IF t \in Varying THEN FeedTop ELSE FillerFeed(t)).rec]))

\* a history of n weekly runs before day 1 (dates 1-n .. 0)
OldHistory(n) == [j \in 1 .. n |-> Snapshot(j - n, OldTop)]

\* one run short of the cap, and at (or beyond) the cap
OldLens == {HISTORY_KEEP - 1, HISTORY_KEEP + MaxOver}

\* the tickers of a list, in its order
TickersOf(list) == [j \in 1 .. Len(list) |-> list[j].ticker]

\* ---- State --------------------------------------------------------------
VARIABLES
    today,      \* the UTC calendar day (only equality of days matters)
    runs,       \* invocations of run_screener so far
    pc,         \* where the current invocation is, or how the last one ended
    date_str,   \* the run's date_str
    i,          \* 1-based index of the next ticker of the loop
    results,    \* the run's `results` list
    skipped,    \* the run's `skipped` list
    pct,        \* r12, r6, r3 of the filtered results, in their order
    top20,      \* the run's `top20` list
    prevDoc,    \* prev_ranks.json
    outDoc,     \* screener_data.json
    histDoc,    \* history.json
    written,    \* the files this run has written so far
    below,      \* tickers whose exact RSL ratio is below 1.0 in this run
    lastTop,    \* tickers of the top-N of the run before this one, by rank
                \* (<<>> if that run aborted)
    lastSaved,  \* tickers of the top-N of the last run that wrote
                \* prev_ranks.json, by rank
    alt         \* the ranker's input in another order (SpecRank only)

vars == <<today, runs, pc, date_str, i, results, skipped, pct, top20,
          prevDoc, outDoc, histDoc, written, below, lastTop, lastSaved, alt>>

Ended == {"idle", "aborted", "failed", "done"}

\* before the first invocation
Idle ==
    /\ today = 1 /\ runs = 0 /\ pc = "idle"
    /\ date_str = 0 /\ i = 1
    /\ results = <<>> /\ skipped = <<>> /\ pct = <<>> /\ top20 = <<>>
    /\ written = {} /\ below = {} /\ alt = <<>>

\* the documents the run of day 0 left behind, the history n runs long
Established(n) ==
    /\ prevDoc = Ok(NewPrev(OldTop))
    /\ outDoc = Ok(Output(0, OldTop, <<>>, WithPrevRank(OldTop, NewPrev(OldTop))))
    /\ histDoc = Ok(OldHistory(n))
    /\ lastTop = TickersOf(OldTop) /\ lastSaved = TickersOf(OldTop)

\* A new installation: no file yet, or a prev_ranks.json / history.json that
\* is there and cannot be read.
Init ==
    /\ Idle
    /\ lastTop = <<>> /\ lastSaved = <<>> /\ outDoc = Absent
    /\ \/ prevDoc = Absent /\ histDoc = Absent
       \/ prevDoc = Corrupt /\ histDoc = Absent
       \/ prevDoc = Absent /\ histDoc = Corrupt

\* An installation that has run weekly: the history is one run short of the
\* cap or at the cap; or one of its files has since become unreadable.
InitLedger ==
    /\ Idle
    /\ \/ \E n \in OldLens : Established(n)
       \/ \E doc \in {"prev", "hist"} :
            /\ lastTop = TickersOf(OldTop) /\ lastSaved = TickersOf(OldTop)
            /\ outDoc = Ok(Output(0, OldTop, <<>>, WithPrevRank(OldTop, NewPrev(OldTop))))
            /\ prevDoc = IF doc = "prev" THEN Corrupt ELSE Ok(NewPrev(OldTop))
            /\ histDoc = IF doc = "hist" THEN Corrupt ELSE Ok(OldHistory(HISTORY_KEEP - 1))

\* ---- Actions ------------------------------------------------------------
\* midnight UTC passes after a run
Tick ==
    /\ pc \in Ended /\ today = date_str
    /\ today' = today + 1
    /\ UNCHANGED <<runs, pc, date_str, i, results, skipped, pct, top20,
                   prevDoc, outDoc, histDoc, written, below, lastTop, lastSaved, alt>>

\* run_screener() is invoked (lines 251-271)
Start ==
    /\ pc \in Ended /\ runs < MaxRuns
    /\ runs' = runs + 1
    /\ pc' = "fetch"
    /\ date_str' = today
    /\ i' = 1 /\ results' = <<>> /\ skipped' = <<>> /\ pct' = <<>> /\ top20' = <<>>
    /\ written' = {} /\ below' = {}
    /\ lastTop' = IF pc = "idle" THEN lastTop
                  ELSE IF pc = "aborted" THEN <<>>
                  ELSE TickersOf(top20)
    /\ lastSaved' = IF "prev" \in written THEN TickersOf(top20) ELSE lastSaved
    /\ UNCHANGED <<today, prevDoc, outDoc, histDoc, alt>>

\* mutant of Fetch: the except branch records no skip
Fetch_DropsError ==
    /\ pc = "fetch" /\ i <= NumTickers
    /\ \E feed \in Feeds(i) :
        LET o == Outcomes[i][feed]
        IN  /\ results' = IF o.ok THEN Append(results, o.rec) ELSE results
            /\ skipped' = IF o.ok \/ feed.kind = "error" THEN skipped
                          ELSE Append(skipped, o.rec)
            /\ below' = IF BelowOne[i][feed] THEN below \cup {i} ELSE below
    /\ i' = i + 1
    /\ UNCHANGED <<today, runs, pc, date_str, pct, top20,
                   prevDoc, outDoc, histDoc, written, lastTop, lastSaved, alt>>

\* one pass of the loop of lines 273-324
Fetch ==
    /\ pc = "fetch" /\ i <= NumTickers
    /\ \E feed \in Feeds(i) :
        LET o == Outcomes[i][feed]
        IN  /\ results' = IF o.ok THEN Append(results, o.rec) ELSE results
            /\ skipped' = IF o.ok THEN skipped ELSE Append(skipped, o.rec)
            /\ below' = IF BelowOne[i][feed] THEN below \cup {i} ELSE below
    /\ i' = i + 1
    /\ UNCHANGED <<today, runs, pc, date_str, pct, top20,
                   prevDoc, outDoc, histDoc, written, lastTop, lastSaved, alt>>

\* lines 330-332: fewer than TOP_N valid results
Abort ==
    /\ pc = "fetch" /\ i > NumTickers
    /\ Len(results) < TOP_N
    /\ pc' = "aborted"
    /\ UNCHANGED <<today, runs, date_str, i, results, skipped, pct, top20,
                   prevDoc, outDoc, histDoc, written, below, lastTop, lastSaved, alt>>

\* lines 334-360
RankResults ==
    /\ pc = "fetch" /\ i > NumTickers
    /\ ~(Len(results) < TOP_N)
    /\ pct' = Percentiles(RslFilter(results))
    /\ results' = Rank(results)
    /\ top20' = Top(results')
    /\ pc' = "ranked"
    /\ UNCHANGED <<today, runs, date_str, i, skipped,
                   prevDoc, outDoc, histDoc, written, below, lastTop, lastSaved, alt>>

\* lines 363-366 on a prev_ranks.json that cannot be read: the run dies
LoadPrevFails ==
    /\ pc = "ranked" /\ prevDoc.state = "corrupt"
    /\ pc' = "failed"
    /\ UNCHANGED <<today, runs, date_str, i, results, skipped, pct, top20,
                   prevDoc, outDoc, histDoc, written, below, lastTop, lastSaved, alt>>

\* mutant of SavePrevRanks: the new ranks are merged into the old mapping
SavePrevRanks_Merge ==
    /\ pc = "ranked" /\ prevDoc.state # "corrupt"
    /\ top20' = WithPrevRank(top20, LoadPrev(prevDoc))
    /\ prevDoc' = Ok([t \in DOMAIN LoadPrev(prevDoc) \cup DOMAIN NewPrev(top20) |->
                        IF t \in DOMAIN NewPrev(top20) THEN NewPrev(top20)[t]
                        ELSE LoadPrev(prevDoc)[t]])
    /\ written' = written \cup {"prev"}
    /\ pc' = "prev_saved"
    /\ UNCHANGED <<today, runs, date_str, i, results, skipped, pct,
                   outDoc, histDoc, below, lastTop, lastSaved, alt>>

\* lines 363-374
SavePrevRanks ==
    /\ pc = "ranked" /\ prevDoc.state # "corrupt"
    /\ top20' = WithPrevRank(top20, LoadPrev(prevDoc))
    /\ prevDoc' = Ok(NewPrev(top20))
    /\ written' = written \cup {"prev"}
    /\ pc' = "prev_saved"
    /\ UNCHANGED <<today, runs, date_str, i, results, skipped, pct,
                   outDoc, histDoc, below, lastTop, lastSaved, alt>>

\* lines 377-390
WriteOutput ==
    /\ pc = "prev_saved"
    /\ outDoc' = Ok(Output(date_str, results, skipped, top20))
    /\ written' = written \cup {"out"}
    /\ pc' = "out_saved"
    /\ UNCHANGED <<today, runs, date_str, i, results, skipped, pct, top20,
                   prevDoc, histDoc, below, lastTop, lastSaved, alt>>

\* lines 393-396 on a history.json that cannot be read: the run dies
LoadHistoryFails ==
    /\ pc = "out_saved" /\ histDoc.state = "corrupt"
    /\ pc' = "failed"
    /\ UNCHANGED <<today, runs, date_str, i, results, skipped, pct, top20,
                   prevDoc, outDoc, histDoc, written, below, lastTop, lastSaved, alt>>

\* lines 393-426
AppendHistory ==
    /\ pc = "out_saved" /\ histDoc.state # "corrupt"
    /\ histDoc' = Ok(AppendTrim(histDoc.data, Snapshot(date_str, top20)))
    /\ written' = written \cup {"hist"}
    /\ pc' = "done"
    /\ UNCHANGED <<today, runs, date_str, i, results, skipped, pct, top20,
                   prevDoc, outDoc, below, lastTop, lastSaved, alt>>

Next ==
    \/ Tick
    \/ Start
    \/ Fetch
    \/ Abort
    \/ RankResults
    \/ LoadPrevFails
    \/ SavePrevRanks
    \/ WriteOutput
    \/ LoadHistoryFails
    \/ AppendHistory

Spec == Init /\ [][Next]_vars

SpecLedger == InitLedger /\ [][Next]_vars

\* ---- The ranker on its own (lines 334-360 as a function of the list) -----
\* largest list and largest 12-month momentum of the small inputs
MaxRankN == 3
MaxMom == 1

\* a valid result above its average with the given momenta
Metric(t, m12, m6, m3) ==
    [ticker |-> t, price |-> 10000, rsl |-> RslOne,
     mom_12m |-> m12, mom_6m |-> m6, mom_3m |-> m3]

MetricChoices == (0 .. MaxMom) \X {0, 1} \X {0, 1}

\* every list of 1 .. MaxRankN results, the j-th for ticker j
SmallLists ==
    UNION {{[j \in 1 .. n |-> Metric(j, c[j][1], c[j][2], c[j][3])] :
                c \in [1 .. n -> MetricChoices]} : n \in 1 .. MaxRankN}

\* the valid results of the whole universe, TickerA and TickerB on any feed
\* that gives them strong or weak momentum
FullLists ==
    {[t \in Tickers |->
        Outcomes[t][IF t = TickerA THEN fa ELSE IF t = TickerB THEN fb
                    ELSE FillerFeed(t)].rec] :
        fa \in {FeedTop, FeedJustBelow}, fb \in {FeedTop, FeedBottom, FeedBelow}}

\* list with the elements at j and j + 1 exchanged
SwapAt(list, j) ==
    [k \in 1 .. Len(list) |->
        IF k = j THEN list[j + 1] ELSE IF k = j + 1 THEN list[j] ELSE list[k]]

\* every exchange of two neighbours (they generate every ordering); a list
\* of one has its own order only
Reorderings(list) ==
    IF Len(list) = 1 THEN {list}
    ELSE {SwapAt(list, j) : j \in 1 .. (Len(list) - 1)}

InitRank ==
    /\ today = 1 /\ runs = 0 /\ pc = "list"
    /\ date_str = 0 /\ i = 1
    /\ skipped = <<>> /\ pct = <<>> /\ top20 = <<>>
    /\ written = {} /\ below = {}
    /\ prevDoc = Absent /\ outDoc = Absent /\ histDoc = Absent
    /\ lastTop = <<>> /\ lastSaved = <<>>
    /\ results \in SmallLists \cup FullLists
    /\ alt \in Reorderings(results)

\* steps 3-5 on `results` and on the same results in the order `alt`
RankLists ==
    /\ pc = "list"
    /\ pct' = Percentiles(RslFilter(results))
    /\ results' = Rank(results)
    /\ alt' = Rank(alt)
    /\ top20' = Top(results')
    /\ pc' = "ranked_lists"
    /\ UNCHANGED <<today, runs, date_str, i, skipped,
                   prevDoc, outDoc, histDoc, written, below, lastTop, lastSaved>>

SpecRank == InitRank /\ [][RankLists]_vars

\* ======================= Properties ======================================
TickerSet(list) == {list[j].ticker : j \in 1 .. Len(list)}

\* the run has ranked: `results` holds the ranked survivors of the filter
AfterRanking == pc \in {"ranked", "prev_saved", "out_saved", "done", "failed"}

\* position of ticker t in a list of tickers, None when it is not there
RankIn(tickers, t) ==
    IF \E j \in 1 .. Len(tickers) : tickers[j] = t
    THEN CHOOSE j \in 1 .. Len(tickers) : tickers[j] = t
    ELSE None

\* ---- C1 ----
\* C1 (as claimed): whenever fewer than TOP_N results pass the RSL filter, the
\* run has written none of the three files -- also when TOP_N or more results
\* were valid before the filter.
C1_FewSurvivorsWriteNothing ==
    (pc \notin {"idle", "fetch"} /\ Len(RslFilter(results)) < TOP_N)
        => written = {}

\* ---- C2 ----
\* C2 (as claimed): however a run ends, it has written all three files or
\* none of them.
C2_AllOrNone ==
    pc \in {"done", "aborted", "failed"}
        => (written = {} \/ written = {"prev", "out", "hist"})

\* ---- C8 ----
\* a stock list of exactly TOP_N stocks, ranks 1 .. TOP_N in order, composite
\* non-increasing, and no ranked survivor outside it beats its last stock
IsTopN(stocks) ==
    /\ Len(stocks) = TOP_N
    /\ \A k \in 1 .. TOP_N : stocks[k].rank = k
    /\ \A k \in 1 .. (TOP_N - 1) : stocks[k].composite >= stocks[k + 1].composite
    /\ TickerSet(stocks) \subseteq TickerSet(results)
    /\ \A j \in 1 .. Len(results) :
          results[j].ticker \notin TickerSet(stocks)
              => results[j].composite <= stocks[TOP_N].composite

\* C8 (as claimed): every snapshot a run persists (screener_data.json's top20
\* and the history entry) lists exactly the TOP_N survivors of highest
\* composite, in non-increasing composite order, with ranks 1 .. TOP_N.
C8_SnapshotIsTopN ==
    /\ "out" \in written => IsTopN(outDoc.data.top20)
    /\ "hist" \in written => IsTopN(histDoc.data[Len(histDoc.data)].stocks)

\* ---- C10 ----
\* C10 (as claimed): the ranked results are exactly the valid tickers whose
\* exact RSL ratio is at least 1.0, and no ticker whose ratio is below 1.0 is
\* in a snapshot or history entry the run wrote.
C10_HardGate ==
    /\ AfterRanking => TickerSet(results) = (Tickers \ TickerSet(skipped)) \ below
    /\ "out" \in written => TickerSet(outDoc.data.top20) \cap below = {}
    /\ "hist" \in written
          => TickerSet(histDoc.data[Len(histDoc.data)].stocks) \cap below = {}

\* ---- C9 ----
\* C9: while the loop runs and when it has ended, every ticker it has passed
\* is in exactly one of `results` and `skipped`, once (valid + skipped =
\* attempted); a run is only ever aborted after the whole universe was
\* attempted, never by a ticker's data error.
C9_EveryTickerAccounted ==
    pc \in {"fetch", "aborted"} =>
        /\ Len(results) + Len(skipped) = i - 1
        /\ TickerSet(results) \cup TickerSet(skipped) = 1 .. (i - 1)
        /\ TickerSet(results) \cap TickerSet(skipped) = {}
        /\ Cardinality(TickerSet(skipped)) = Len(skipped)
        /\ Cardinality(TickerSet(results)) = Len(results)
        /\ pc = "aborted" => i = NumTickers + 1

\* the loop has ended; TickerA's fetch raised, and TickerB after it is valid
C9_Witness ==
    /\ pc = "fetch" /\ i = NumTickers + 1
    /\ \E j \in 1 .. Len(skipped) :
          skipped[j].ticker = TickerA /\ skipped[j].reason = "Error"
    /\ TickerB \in TickerSet(results)

\* ---- C3 ----
\* prev_ranks.json holds exactly ticker -> rank of the run's top20
HoldsExactly(doc, top) ==
    /\ doc.state = "ok"
    /\ DOMAIN doc.data = TickerSet(top)
    /\ \A k \in 1 .. Len(top) : doc.data[top[k].ticker] = top[k].rank

\* C3 (as claimed): each stock of the top-N gets as prev_rank its rank in the
\* top-N of the run immediately before (null if it was not there), and
\* prev_ranks.json is replaced by exactly the run's top-N mapping.  (Stated
\* for runs with a full top-N, so that it does not rest on C1.)
C3_PrevRankOfPrecedingRun ==
    /\ (pc = "prev_saved" /\ Len(top20) = TOP_N) =>
          \A k \in 1 .. Len(top20) :
              top20[k].prev_rank = RankIn(lastTop, top20[k].ticker)
    /\ "prev" \in written => HoldsExactly(prevDoc, top20)

\* C3 (amended): each stock of the top-N gets as prev_rank its rank in the
\* top-N of the latest earlier run that wrote prev_ranks.json (null if it
\* was not there); a run that aborts leaves the index as it was.
\* prev_ranks.json is replaced by exactly the run's top-N mapping.
C3_PrevRankOfLastSavingRun ==
    /\ pc = "prev_saved" =>
          \A k \in 1 .. Len(top20) :
              top20[k].prev_rank = RankIn(lastSaved, top20[k].ticker)
    /\ "prev" \in written => HoldsExactly(prevDoc, top20)

\* a stock enters the top-N with prev_rank null although an earlier history
\* entry lists it, and another stock carries its rank over
C3_Witness ==
    /\ pc = "prev_saved" /\ lastSaved # <<>> /\ histDoc.state = "ok"
    /\ \E k \in 1 .. Len(top20) :
          /\ top20[k].prev_rank = None
          /\ \E h \in 1 .. Len(histDoc.data) :
                top20[k].ticker \in TickerSet(histDoc.data[h].stocks)
    /\ \E k \in 1 .. Len(top20) : top20[k].prev_rank # None

\* ---- C4, C5 ----
\* the step that writes history.json
HistoryWritten == pc = "out_saved" /\ pc' = "done"

\* C4: the history a run writes holds at most 104 entries, the new snapshot
\* last; the entries before it are the latest of the earlier entries of other
\* dates, in their order (what is dropped is dropped from the front).
C4_CapEvictsOldest ==
    [][HistoryWritten =>
        LET old == SelectSeq(histDoc.data, LAMBDA h : h.date # date_str)
            new == histDoc'.data
            m == Len(new) - 1
            drop == Len(old) - m
        IN  /\ Len(new) <= HISTORY_KEEP
            /\ m >= 0 /\ drop >= 0
            /\ new[m + 1] = Snapshot(date_str, top20)
            /\ \A j \in 1 .. m : new[j] = old[j + drop]
            /\ drop > 0 => Len(new) = HISTORY_KEEP]_vars

\* the history is full and the entries of days -102 and before are gone
C4_Witness ==
    /\ pc = "done" /\ histDoc.state = "ok"
    /\ Len(histDoc.data) = HISTORY_KEEP
    /\ histDoc.data[1].date >= 3 - HISTORY_KEEP

\* C5: the history a run writes has one entry per date, the run's snapshot
\* being the one of its date; a run whose snapshot is already the last entry
\* (a second run of the day on the same inputs) leaves the history as it is.
C5_OneEntryPerDate ==
    [][HistoryWritten =>
        LET old == histDoc.data
            new == histDoc'.data
            snapshot == Snapshot(date_str, top20)
        IN  /\ \A a, b \in 1 .. Len(new) : new[a].date = new[b].date => a = b
            /\ new[Len(new)] = snapshot
            /\ (/\ Len(old) > 0 /\ Len(old) <= HISTORY_KEEP
                /\ old[Len(old)] = snapshot) => new = old]_vars

\* second run of day 1 done, with the top-N the run before it had
C5_Witness ==
    /\ pc = "done" /\ runs >= 2 /\ today = 1 /\ date_str = 1
    /\ lastTop # <<>> /\ lastTop = TickersOf(top20)
    /\ histDoc.state = "ok"
    /\ Cardinality({h \in 1 .. Len(histDoc.data) : histDoc.data[h].date = 1}) = 1

\* ---- C6 ----
Windows == {<<"mom_12m", "r12">>, <<"mom_6m", "r6">>, <<"mom_3m", "r3">>}

\* the ranked result of ticker t
ResultOf(t) == results[CHOOSE j \in 1 .. Len(results) : results[j].ticker = t]

Holders(f, v) == {j \in 1 .. Len(results) : results[j][f] = v}
IsMin(f, v) == \A j \in 1 .. Len(results) : results[j][f] >= v
IsMax(f, v) == \A j \in 1 .. Len(results) : results[j][f] <= v

\* C6 (as claimed): in each window pct_rank is 0 for every holder of the
\* minimum and, for N > 1, 100 for every holder of the maximum.
C6_MinIsZeroMaxIsHundred ==
    pc = "ranked_lists" =>
        \A p \in 1 .. Len(pct) : \A w \in Windows :
            LET v == ResultOf(pct[p].ticker)[w[1]]
                r == pct[p][w[2]]
            IN  /\ IsMin(w[1], v) => r[1] = 0
                /\ (Len(results) > 1 /\ IsMax(w[1], v)) => r[1] = 100 * r[2]

\* C6 (amended): in each window pct_rank is 0 for every holder of the minimum;
\* for N > 1 the k holders of the maximum all get (N - k) / (N - 1) * 100,
\* which is 100 only when a single instrument holds the maximum.
C6_MinIsZeroMaxByFirstIndex ==
    pc = "ranked_lists" =>
        \A p \in 1 .. Len(pct) : \A w \in Windows :
            LET v == ResultOf(pct[p].ticker)[w[1]]
                r == pct[p][w[2]]
                n == Len(results)
                k == Cardinality(Holders(w[1], v))
            IN  /\ IsMin(w[1], v) => r[1] = 0
                /\ (n > 1 /\ IsMax(w[1], v))
                      => /\ r = <<(n - k) * 100, n - 1>>
                         /\ (r[1] = 100 * r[2]) <=> (k = 1)

\* three or more survivors; one window has a single holder of its maximum
\* (rank 100), another has several (rank below 100)
C6_Witness ==
    /\ pc = "ranked_lists" /\ Len(results) > 2
    /\ \E p \in 1 .. Len(pct) : pct[p].r12[1] = 100 * pct[p].r12[2]
    /\ \E p \in 1 .. Len(pct) :
          /\ IsMax("mom_6m", ResultOf(pct[p].ticker).mom_6m)
          /\ pct[p].r6[1] > 0 /\ pct[p].r6[1] < 100 * pct[p].r6[2]

\* ---- C7 ----
\* C7 (as claimed): whatever the order of the input, every instrument gets
\* the same composite and the same rank, and the top-N list is the same.
C7_OrderIndependent ==
    pc = "ranked_lists" =>
        /\ \A j \in 1 .. Len(results) : \A k \in 1 .. Len(alt) :
              results[j].ticker = alt[k].ticker
                  => /\ results[j].composite = alt[k].composite
                     /\ results[j].rank = alt[k].rank
        /\ Top(results) = Top(alt)

NoTie(list) ==
    \A j, k \in 1 .. Len(list) : list[j].composite = list[k].composite => j = k

\* C7 (amended): whatever the order of the input, every instrument gets the
\* same composite; when no two survivors have the same composite it also gets
\* the same rank and the top-N list is the same; survivors of equal composite
\* are ranked in the order of the input (here: by ticker), so their ranks and
\* the cut at TOP_N follow the input order.
C7_OrderIndependentUpToTies ==
    pc = "ranked_lists" =>
        /\ TickerSet(results) = TickerSet(alt)
        /\ \A j \in 1 .. Len(results) : \A k \in 1 .. Len(alt) :
              results[j].ticker = alt[k].ticker
                  => /\ results[j].composite = alt[k].composite
                     /\ (results[j].rank # alt[k].rank
                            => \E x \in 1 .. Len(results) :
                                  /\ x # j
                                  /\ results[x].composite = results[j].composite)
        /\ NoTie(results) => (results = alt /\ Top(results) = Top(alt))
        /\ \A j, k \in 1 .. Len(results) :
              (j < k /\ results[j].composite = results[k].composite)
                  => results[j].ticker < results[k].ticker

\* more survivors than TOP_N, no two of the same composite, both orders
\* ranked alike
C7_Witness ==
    /\ pc = "ranked_lists" /\ Len(results) > TOP_N
    /\ NoTie(results) /\ results = alt

====
